---- MODULE Spec2Model ----
(***************************************************************************)
(* Expense-Sharing-Application: the ledger (expenses, expense_splits,      *)
(* settlements, groups, group_members) and the handlers that write and     *)
(* read it: createExpense, createSettlement, createGroup, addGroupMember,  *)
(* getGroupBalances, getUserBalances.                                      *)
(* And the App component of the client: the selected group and the calls   *)
(* of loadGroupData that load its details, expenses and balances.          *)
(*                                                                         *)
(* Money is an integer number of cents, percentages are hundredths of a    *)
(* percent.  The arithmetic of the handlers is modelled on exact decimals; *)
(* where the representation error of IEEE-754 doubles decides a tolerance  *)
(* test (of createExpense, of a balance query), the model leaves the       *)
(* outcome open.                                                           *)
(*                                                                         *)
(* A string that holds '-' separators is the sequence of its segments, so  *)
(* that joining two identifiers with '-' is concatenation and split('-')   *)
(* is the sequence itself.  A uuid is a string of SegmentsPerId segments.  *)
(***************************************************************************)
EXTENDS Integers, Sequences, FiniteSets, TLC

VARIABLES
    group_members,   \* table group_members: set of [group_id, user_id]
    expenses,        \* table expenses, in insertion order
    expense_splits,  \* table expense_splits, in insertion order
    settlements,     \* table settlements, in insertion order
    pending,         \* createExpense requests between their two writes
    response,        \* HTTP status of the last create handler that answered, 0 before any
    request,         \* req.body of the last request a create handler received
    groups,          \* table groups, in insertion order
    pendingMembers,  \* createGroup requests between their two writes
    queries,         \* getGroupBalances invocations waiting for the store
    answers,         \* the getGroupBalances responses sent, in order
    sumsRoundUp,     \* whether the doubles summed from the rows now stored exceed
                     \* the tolerance where their decimal value equals it
    selectedGroup,   \* App: the selectedGroup state, a Group object or null
    shownExpenses,   \* App: the group whose expenses the expenses state holds, 0 for []
    groupBalances,   \* App: the group whose balances the groupBalances state holds
    loads,           \* App: the loadGroupData calls waiting at their await
    selections,      \* how many times the user has picked a group in GroupList
    lastSelected     \* the group the user picked last, 0 before any

vars == <<group_members, expenses, expense_splits, settlements, pending, response,
          request, groups, pendingMembers, queries, answers, sumsRoundUp,
          selectedGroup, shownExpenses, groupBalances, loads, selections,
          lastSelected>>

\* The state of the server, and the state of the App component and its user.
server == <<group_members, expenses, expense_splits, settlements, pending, response,
            request, groups, pendingMembers, queries, answers, sumsRoundUp>>
app == <<selectedGroup, shownExpenses, groupBalances, loads, selections, lastSelected>>

----------------------------------------------------------------------------
(* Bounds of the model *)

NumUsers == 3
NumGroups == 2
MaxExpenses == 2
MaxSettlements == 2
MaxSplitCount == 6
MaxSplitAmount == 12
MaxNewGroups == 2
MaxQueries == 3
MaxSelections == 2

(* Program constants *)

SegmentsPerId == 5          \* a uuid prints as 8-4-4-4-12: five segments
Tolerance == 1              \* 0.01 currency units, in cents
PercentTolerance == 1       \* 0.01 percent, in hundredths of a percent
HundredPercent == 10000     \* 100 percent, in hundredths of a percent
PercentDivisor == 10000     \* "/ 100" on a percentage held in hundredths
QuarterUnit == 25           \* 0.25 currency units, in cents
StatusCreated == 201
StatusBadRequest == 400
StatusConflict == 409
StatusServerError == 500

----------------------------------------------------------------------------
(* Identifiers *)

\* The uuid the store issues to the n-th user: SegmentsPerId segments, every
\* segment distinct from every segment of another user's uuid.
UserId(n) == [i \in 1..SegmentsPerId |-> 10 * n + i]

Users == {UserId(n) : n \in 1..NumUsers}
Groups == 1..NumGroups

\* JavaScript's undefined (a lookup that finds nothing), and SQL's NULL.
Undefined == <<>>
Null == <<>>

----------------------------------------------------------------------------
(* Generic helpers *)

\* A sequence without its last element, and that element.
Front(s) == SubSeq(s, 1, Len(s) - 1)
Last(s) == s[Len(s)]

RECURSIVE SumSeq(_)
SumSeq(s) == IF s = <<>> THEN 0 ELSE Head(s) + SumSeq(Tail(s))

Abs(x) == IF x < 0 THEN -x ELSE x

MapSeq(s, F(_)) == [i \in 1..Len(s) |-> F(s[i])]

Range(s) == {s[i] : i \in 1..Len(s)}

\* Number.prototype.toFixed(2) of the quotient num/den (den > 0), as a whole
\* number of the result's unit: the nearest one, the larger magnitude on a tie.
ToFixed2Half(num, den) == (2 * num + den) \div (2 * den)
ToFixed2(num, den) ==
    IF num < 0 THEN -ToFixed2Half(-num, den) ELSE ToFixed2Half(num, den)

----------------------------------------------------------------------------
(* Ledger store: the tables of the schema and the reads the handlers issue *)

\* CHECK constraints of the tables (amount numeric(10,2) CHECK (amount > 0),
\* CHECK (paid_by != paid_to)): an insert that breaks one returns an error.
ExpenseRowOk(row) == row.amount > 0
SettlementRowOk(row) == row.amount > 0 /\ row.paid_by # row.paid_to

\* Number(row.amount) of every row is a double without representation error,
\* and so is every sum of them: the amounts are multiples of 0.25.
ExactDoubles(rows) == \A i \in 1..Len(rows) : rows[i].amount % QuarterUnit = 0

\* What sumsRoundUp can be for the rows stored: open, unless all are exact.
RoundingOutcomes(splits, setts) ==
    IF ExactDoubles(splits) /\ ExactDoubles(setts) THEN {FALSE} ELSE BOOLEAN

\* select ... expense_splits(user_id, amount): the split rows of one expense.
SplitsOf(expense_id) ==
    SelectSeq(expense_splits, LAMBDA s : s.expense_id = expense_id)

\* The read without its filter: the expenses of every group.
ExpensesInAnyGroup(groupIds) ==
    MapSeq(expenses,
           LAMBDA e : [id |-> e.id, amount |-> e.amount, paid_by |-> e.paid_by,
                       group_id |-> e.group_id,
                       expense_splits |-> SplitsOf(e.id)])

\* from('expenses').select(..., expense_splits(...)).in('group_id', groupIds)
ExpensesIn(groupIds) ==
    MapSeq(SelectSeq(expenses, LAMBDA e : e.group_id \in groupIds),
           LAMBDA e : [id |-> e.id, amount |-> e.amount, paid_by |-> e.paid_by,
                       group_id |-> e.group_id,
                       expense_splits |-> SplitsOf(e.id)])

\* from('settlements').select('*').in('group_id', groupIds)
SettlementsIn(groupIds) ==
    SelectSeq(settlements, LAMBDA s : s.group_id \in groupIds)

\* from('group_members').select('group_id').eq('user_id', userId)
GroupIdsOf(userId) ==
    {m.group_id : m \in {x \in group_members : x.user_id = userId}}

\* The roster of a group.
MembersOf(groupId) ==
    {m.user_id : m \in {x \in group_members : x.group_id = groupId}}

----------------------------------------------------------------------------
(* createExpense *)

SplitTypes == {"equal", "exact", "percentage"}

\* !group_id || !description || !amount || !paid_by || !split_type || !splits:
\* a field is falsy when the body lacks it; a number is falsy when it is 0.
ExpenseFieldsMissing(req) ==
    \/ {"group_id", "description", "amount", "paid_by", "split_type", "splits"}
           \ req.fields # {}
    \/ req.amount = 0

\* splits.reduce((sum, split) => sum + parseFloat(split.amount), 0)
TotalSplit(req) == SumSeq(MapSeq(req.splits, LAMBDA s : s.amount))

\* splits.reduce((sum, split) => sum + parseFloat(split.percentage), 0)
TotalPercentage(req) == SumSeq(MapSeq(req.splits, LAMBDA s : s.percentage))

\* A share cut off at the cent instead of rounded.
EqualShareTruncated(amount, count) == amount \div count

\* The share of every participant of an equal split:
\* (parseFloat(amount) / splits.length).toFixed(2)
EqualShare(amount, count) == ToFixed2(amount, count)

\* The share of one participant of a percentage split:
\* (parseFloat(amount) * parseFloat(split.percentage) / 100).toFixed(2)
PercentageShare(amount, percentage) ==
    ToFixed2(amount * percentage, PercentDivisor)

\* calculatedSplits, for a request that passed the validation of its kind.
\* A participant of an equal split is a bare user id in the request body; the
\* model holds it in the user_id field of a record.
calculatedSplits(req) ==
    IF req.split_type = "equal"
    THEN MapSeq(req.splits, LAMBDA s :
            [user_id |-> s.user_id,
             amount |-> EqualShare(req.amount, Len(req.splits)),
             percentage |-> Null])
    ELSE IF req.split_type = "exact"
    THEN MapSeq(req.splits, LAMBDA s :
            [user_id |-> s.user_id,
             amount |-> ToFixed2(s.amount, 1),
             percentage |-> Null])
    ELSE MapSeq(req.splits, LAMBDA s :
            [user_id |-> s.user_id,
             amount |-> PercentageShare(req.amount, s.percentage),
             percentage |-> <<s.percentage>>])

\* Math.abs(value) > 0.01, a comparison of doubles.  The decimal
\* difference decides it, except when that difference is the tolerance itself:
\* there the representation error of the operands decides (0.5 + 0.51 - 1
\* and 0.3 - 0.29 exceed 0.01 as doubles, 1 + 1.01 - 2 and 0.02 - 0.01 do not),
\* and the model leaves the outcome open in roundedUp.
ExceedsTolerance(difference, tolerance, roundedUp) ==
    \/ Abs(difference) > tolerance
    \/ Abs(difference) = tolerance /\ roundedUp

\* The 400 responses without the tests of the sums of the participants.
ExpenseRejectedSumsUntested(req, roundedUp) ==
    \/ ExpenseFieldsMissing(req)
    \/ req.split_type \notin SplitTypes

\* The 400 responses of createExpense.
ExpenseRejected(req, roundedUp) ==
    \/ ExpenseFieldsMissing(req)
    \/ req.split_type \notin SplitTypes
    \/ /\ req.split_type = "exact"
       /\ ExceedsTolerance(TotalSplit(req) - req.amount, Tolerance, roundedUp)
    \/ /\ req.split_type = "percentage"
       /\ ExceedsTolerance(TotalPercentage(req) - HundredPercent,
                           PercentTolerance, roundedUp)

\* The row createExpense inserts into expenses.
ExpenseRow(req) ==
    [id |-> Len(expenses) + 1, group_id |-> req.group_id, amount |-> req.amount,
     paid_by |-> req.paid_by, split_type |-> req.split_type]

\* The rows createExpense inserts into expense_splits.
expenseSplits(expense_id, calculated) ==
    MapSeq(calculated, LAMBDA s :
        [expense_id |-> expense_id, user_id |-> s.user_id,
         amount |-> s.amount, percentage |-> s.percentage])

\* createExpense up to its first write: validation, the split calculation and
\* the insert of the expense row.  The handler then waits for the store.
createExpense(req) ==
    /\ UNCHANGED app
    /\ UNCHANGED <<queries, answers, sumsRoundUp>>
    /\ pending = <<>>
    /\ Len(expenses) < MaxExpenses
    /\ request' = req
    /\ UNCHANGED <<group_members, expense_splits, settlements, groups, pendingMembers>>
    /\ \E roundedUp \in BOOLEAN :
       IF ExpenseRejected(req, roundedUp)
       THEN /\ response' = StatusBadRequest
            /\ UNCHANGED <<expenses, pending>>
       ELSE IF ~ExpenseRowOk(ExpenseRow(req))
       THEN /\ response' = StatusServerError
            /\ UNCHANGED <<expenses, pending>>
       ELSE /\ expenses' = Append(expenses, ExpenseRow(req))
            /\ pending' = <<[expense_id |-> Len(expenses) + 1,
                             splits |-> calculatedSplits(req)]>>
            /\ UNCHANGED response

\* createExpense's second write stores one split row at a time, 201 after the
\* last one.
createExpenseInsertSplitsOneByOne ==
    /\ UNCHANGED app
    /\ UNCHANGED <<queries, answers>>
    /\ pending # <<>>
    /\ expense_splits' =
           expense_splits \o expenseSplits(pending[1].expense_id,
                                           <<Head(pending[1].splits)>>)
    /\ sumsRoundUp' \in RoundingOutcomes(expense_splits', settlements)
    /\ pending' = IF Len(pending[1].splits) = 1 THEN <<>>
                  ELSE <<[pending[1] EXCEPT !.splits = Tail(pending[1].splits)]>>
    /\ response' = IF Len(pending[1].splits) = 1 THEN StatusCreated ELSE response
    /\ UNCHANGED <<group_members, expenses, settlements, request, groups,
                   pendingMembers>>

\* createExpense's second write succeeds: the split rows are stored, 201.
createExpenseInsertSplits ==
    /\ UNCHANGED app
    /\ UNCHANGED <<queries, answers>>
    /\ pending # <<>>
    /\ expense_splits' =
           expense_splits \o expenseSplits(pending[1].expense_id, pending[1].splits)
    /\ sumsRoundUp' \in RoundingOutcomes(expense_splits', settlements)
    /\ pending' = <<>>
    /\ response' = StatusCreated
    /\ UNCHANGED <<group_members, expenses, settlements, request, groups,
                   pendingMembers>>

\* createExpense's second write fails and the expense row is taken back.
createExpenseSplitsErrorRollback ==
    /\ UNCHANGED app
    /\ UNCHANGED <<queries, answers, sumsRoundUp>>
    /\ pending # <<>>
    /\ pending' = <<>>
    /\ expenses' = Front(expenses)
    /\ response' = StatusServerError
    /\ UNCHANGED <<group_members, expense_splits, settlements, request,
                   groups, pendingMembers>>

\* createExpense's second write fails: splitsError is thrown, 500; the
\* expense row stays.
createExpenseSplitsError ==
    /\ UNCHANGED app
    /\ UNCHANGED <<queries, answers, sumsRoundUp>>
    /\ pending # <<>>
    /\ pending' = <<>>
    /\ response' = StatusServerError
    /\ UNCHANGED <<group_members, expenses, expense_splits, settlements, request,
                   groups, pendingMembers>>

----------------------------------------------------------------------------
(* createSettlement *)

\* !group_id || !paid_by || !paid_to || !amount
SettlementFieldsMissing(req) ==
    \/ {"group_id", "paid_by", "paid_to", "amount"} \ req.fields # {}
    \/ req.amount = 0

\* The 400 responses without the test of paid_by against paid_to.
SettlementRejectedAnyPayee(req) ==
    \/ SettlementFieldsMissing(req)
    \/ req.amount <= 0

\* The 400 responses of createSettlement.
SettlementRejected(req) ==
    \/ SettlementFieldsMissing(req)
    \/ req.paid_by = req.paid_to
    \/ req.amount <= 0

SettlementRow(req) ==
    [group_id |-> req.group_id, paid_by |-> req.paid_by,
     paid_to |-> req.paid_to, amount |-> req.amount]

createSettlement(req) ==
    /\ UNCHANGED app
    /\ UNCHANGED <<queries, answers>>
    /\ Len(settlements) < MaxSettlements
    /\ request' = req
    /\ UNCHANGED <<group_members, expenses, expense_splits, pending, groups,
                   pendingMembers>>
    /\ IF SettlementRejected(req)
       THEN /\ response' = StatusBadRequest
            /\ UNCHANGED <<settlements, sumsRoundUp>>
       ELSE IF ~SettlementRowOk(SettlementRow(req))
       THEN /\ response' = StatusServerError
            /\ UNCHANGED <<settlements, sumsRoundUp>>
       ELSE /\ settlements' = Append(settlements, SettlementRow(req))
            /\ sumsRoundUp' \in RoundingOutcomes(expense_splits, settlements')
                    /\ response' = StatusCreated

----------------------------------------------------------------------------
(* createGroup, addGroupMember *)

\* !name || !created_by
GroupFieldsMissing(req) == {"name", "created_by"} \ req.fields # {}

\* member_ids && member_ids.length > 0
\*   ? member_ids.map(user_id => ({ group_id: group.id, user_id }))
\*   : [{ group_id: group.id, user_id: created_by }]
members(group_id, req) ==
    IF "member_ids" \in req.fields /\ Len(req.member_ids) > 0
    THEN MapSeq(req.member_ids, LAMBDA user_id :
             [group_id |-> group_id, user_id |-> user_id])
    ELSE <<[group_id |-> group_id, user_id |-> req.created_by]>>

\* The constraints of group_members on an insert of rows: user_id and
\* group_id reference stored records, UNIQUE(group_id, user_id).
GroupMembersInsertOk(rows) ==
    /\ \A i \in 1..Len(rows) :
          /\ rows[i].user_id \in Users
          /\ rows[i].group_id \in 1..Len(groups)
          /\ rows[i] \notin group_members
    /\ \A i \in 1..Len(rows), j \in 1..Len(rows) : i # j => rows[i] # rows[j]

\* createGroup up to its first write: the required-fields test and the
\* insert of the group row (created_by references a stored user).
createGroup(req) ==
    /\ UNCHANGED app
    /\ UNCHANGED <<queries, answers, sumsRoundUp>>
    /\ pendingMembers = <<>>
    /\ Len(groups) < NumGroups + MaxNewGroups
    /\ request' = req
    /\ UNCHANGED <<group_members, expenses, expense_splits, settlements, pending>>
    /\ IF GroupFieldsMissing(req)
       THEN /\ response' = StatusBadRequest
            /\ UNCHANGED <<groups, pendingMembers>>
       ELSE IF req.created_by \notin Users
       THEN /\ response' = StatusServerError
            /\ UNCHANGED <<groups, pendingMembers>>
       ELSE /\ groups' = Append(groups, [id |-> Len(groups) + 1,
                                         created_by |-> req.created_by])
            /\ pendingMembers' = <<members(Len(groups) + 1, req)>>
            /\ UNCHANGED response

\* createGroup's second write succeeds: the member rows are stored, 201.
createGroupInsertMembers ==
    /\ UNCHANGED app
    /\ UNCHANGED <<queries, answers, sumsRoundUp>>
    /\ pendingMembers # <<>>
    /\ GroupMembersInsertOk(pendingMembers[1])
    /\ group_members' = group_members \cup Range(pendingMembers[1])
    /\ pendingMembers' = <<>>
    /\ response' = StatusCreated
    /\ UNCHANGED <<expenses, expense_splits, settlements, pending, request, groups>>

\* createGroup's second write fails: membersError is thrown, 500; the group
\* row stays.
createGroupMembersError ==
    /\ UNCHANGED app
    /\ UNCHANGED <<queries, answers, sumsRoundUp>>
    /\ pendingMembers # <<>>
    /\ pendingMembers' = <<>>
    /\ response' = StatusServerError
    /\ UNCHANGED <<group_members, expenses, expense_splits, settlements, pending,
                   request, groups>>

\* addGroupMember: 400 without user_id, 409 on the unique violation (23505),
\* 500 on any other error of the insert, 201 with the row stored.
addGroupMember(req) ==
    /\ UNCHANGED app
    /\ UNCHANGED <<queries, answers, sumsRoundUp>>
    /\ request' = req
    /\ UNCHANGED <<expenses, expense_splits, settlements, pending, groups,
                   pendingMembers>>
    /\ LET row == [group_id |-> req.groupId, user_id |-> req.user_id]
       IN  IF "user_id" \notin req.fields
           THEN /\ response' = StatusBadRequest
                /\ UNCHANGED group_members
           ELSE IF row \in group_members
           THEN /\ response' = StatusConflict
                /\ UNCHANGED group_members
           ELSE IF ~GroupMembersInsertOk(<<row>>)
           THEN /\ response' = StatusServerError
                /\ UNCHANGED group_members
           ELSE /\ group_members' = group_members \cup {row}
                /\ response' = StatusCreated

----------------------------------------------------------------------------
(* Balance engine: the accumulator object of both queries *)

RECURSIVE Flatten(_)
Flatten(ss) == IF ss = <<>> THEN <<>> ELSE Head(ss) \o Flatten(Tail(ss))

\* const balances = {}: a JavaScript object, its keys in insertion order.
EmptyBalances == [keys |-> <<>>, val |-> <<>>, terms |-> <<>>]

\* How many amounts were added under a key: the double balances[key] is the
\* decimal it stands for when it holds one amount, and it may differ from the
\* decimal sum by a representation error when it holds more.
TermsOf(bal, key) == IF key \in Range(bal.keys) THEN bal.terms[key] ELSE 0

\* balances[key] || 0
Lookup(bal, key) == IF key \in Range(bal.keys) THEN bal.val[key] ELSE 0

\* balances[key] = (balances[key] || 0) + delta
AddTo(bal, key, delta) ==
    [keys |-> IF key \in Range(bal.keys) THEN bal.keys ELSE Append(bal.keys, key),
     val |-> [k \in Range(bal.keys) \cup {key} |->
                 IF k = key THEN Lookup(bal, key) + delta ELSE bal.val[k]],
     terms |-> [k \in Range(bal.keys) \cup {key} |->
                   IF k = key THEN TermsOf(bal, key) + 1 ELSE bal.terms[k]]]

RECURSIVE AddAll(_, _)
AddAll(bal, contribs) ==
    IF contribs = <<>> THEN bal
    ELSE AddAll(AddTo(bal, Head(contribs).key, Head(contribs).delta), Tail(contribs))

----------------------------------------------------------------------------
(* getGroupBalances *)

\* `${a}-${b}`: the two strings joined by the separator.
PairKey(a, b) == a \o b

\* key.split('-')[n - 1]: the n-th segment of the key, a string of one segment.
SplitPart(key, n) == IF n <= Len(key) THEN <<key[n]>> ELSE Undefined

\* expenses.forEach(expense => expense.expense_splits.forEach(split => ...)):
\* a split of another member than the payer adds its amount under
\* `${split.user_id}-${expense.paid_by}`.
GroupExpenseContribs(exps) ==
    Flatten(MapSeq(exps, LAMBDA e :
        MapSeq(SelectSeq(e.expense_splits, LAMBDA s : s.user_id # e.paid_by),
               LAMBDA s : [key |-> PairKey(s.user_id, e.paid_by),
                           delta |-> s.amount])))

\* settlements.forEach(settlement => ...): a settlement subtracts its amount
\* under `${settlement.paid_to}-${settlement.paid_by}`.
GroupSettlementContribs(setts) ==
    MapSeq(setts, LAMBDA s : [key |-> PairKey(s.paid_to, s.paid_by),
                              delta |-> -s.amount])

\* An accumulator kept across invocations: every invocation adds to what the
\* invocations answered before it left behind.
GroupBalancesObjectCarried(exps, setts) ==
    AddAll(AddAll(AddAll(EmptyBalances,
                         Flatten(MapSeq(answers, LAMBDA a :
                             GroupExpenseContribs(ExpensesIn({a.groupId}))))),
                  GroupExpenseContribs(exps)),
           GroupSettlementContribs(setts))

\* The accumulator after both forEach loops, begun as const balances = {}.
GroupBalancesObject(exps, setts) ==
    AddAll(AddAll(EmptyBalances, GroupExpenseContribs(exps)),
           GroupSettlementContribs(setts))

\* The entry the loop pushes for one key, or nothing when |net| <= 0.01.
SimplifiedEntry(bal, key) ==
    LET fromUser == SplitPart(key, 1)
        toUser == SplitPart(key, 2)
        reverseKey == PairKey(toUser, fromUser)
        net == Lookup(bal, key) - Lookup(bal, reverseKey)
        inexact == TermsOf(bal, key) + TermsOf(bal, reverseKey) >= 2
    IN  IF ExceedsTolerance(net, Tolerance, inexact /\ sumsRoundUp)
        THEN <<[from_user |-> IF net > 0 THEN fromUser ELSE toUser,
                to_user |-> IF net > 0 THEN toUser ELSE fromUser,
                amount |-> ToFixed2(Abs(net), 1)]>>
        ELSE <<>>

\* for (const key in balances) { ... }: the keys in insertion order, skipping
\* a key when it or its reverse key is in the processed set.
RECURSIVE SimplifyLoop(_, _, _, _)
SimplifyLoop(bal, i, processed, out) ==
    IF i > Len(bal.keys) THEN out
    ELSE LET key == bal.keys[i]
             reverseKey == PairKey(SplitPart(key, 2), SplitPart(key, 1))
         IN  IF key \in processed \/ reverseKey \in processed
             THEN SimplifyLoop(bal, i + 1, processed, out)
             ELSE SimplifyLoop(bal, i + 1, processed \cup {key, reverseKey},
                               out \o SimplifiedEntry(bal, key))

\* simplifiedBalances, before the user records are looked up.
simplifiedBalances(exps, setts) ==
    SimplifyLoop(GroupBalancesObject(exps, setts), 1, {}, <<>>)

\* userMap[id]: the record of the user with this id (the model holds a user
\* record as its id), undefined when the users table has no such id.
UserMapGet(id) == IF id \in Users THEN id ELSE Undefined

\* The body of the 200 response, from the rows the two reads returned:
\* res.json({ balances: simplifiedBalances.map(...) }).
GroupBalancesBody(exps, setts) ==
    MapSeq(simplifiedBalances(exps, setts), LAMBDA b :
        [from_user |-> UserMapGet(b.from_user),
         to_user |-> UserMapGet(b.to_user),
         amount |-> b.amount])

\* getGroupBalances on the ledger as it stands.
getGroupBalances(groupId) ==
    GroupBalancesBody(ExpensesIn({groupId}), SettlementsIn({groupId}))

\* The invocations of the handler.  It awaits the store three times: the
\* read of the group's expenses, the read of its settlements, the read of the
\* users; other handlers run while it waits.
RemoveAt(s, i) == SubSeq(s, 1, i - 1) \o SubSeq(s, i + 1, Len(s))

\* The request arrives and the expenses of the group are read.
getGroupBalancesReadExpenses(groupId) ==
    /\ UNCHANGED app
    /\ Len(queries) + Len(answers) < MaxQueries
    /\ queries' = Append(queries,
           [groupId |-> groupId, awaits |-> "settlements",
            expenses |-> ExpensesIn({groupId}),
            simplifiedBalances |-> <<>>])
    /\ UNCHANGED <<group_members, expenses, expense_splits, settlements, pending,
                   response, request, groups, pendingMembers, answers, sumsRoundUp>>

\* The settlements of the group are read; the accumulator is built from
\* scratch (const balances = {}) and simplified, then the users are asked for.
getGroupBalancesReadSettlements(i) ==
    /\ UNCHANGED app
    /\ queries[i].awaits = "settlements"
    /\ queries' = [queries EXCEPT
           ![i].awaits = "users",
           ![i].simplifiedBalances =
               simplifiedBalances(queries[i].expenses,
                                  SettlementsIn({queries[i].groupId}))]
    /\ UNCHANGED <<group_members, expenses, expense_splits, settlements, pending,
                   response, request, groups, pendingMembers, answers, sumsRoundUp>>

\* The users are read and the response is sent.
getGroupBalancesRespond(i) ==
    /\ UNCHANGED app
    /\ queries[i].awaits = "users"
    /\ answers' = Append(answers,
           [groupId |-> queries[i].groupId,
            balances |-> MapSeq(queries[i].simplifiedBalances, LAMBDA b :
                [from_user |-> UserMapGet(b.from_user),
                 to_user |-> UserMapGet(b.to_user),
                 amount |-> b.amount])])
    /\ queries' = RemoveAt(queries, i)
    /\ UNCHANGED <<group_members, expenses, expense_splits, settlements, pending,
                   response, request, groups, pendingMembers, sumsRoundUp>>

----------------------------------------------------------------------------
(* getUserBalances *)

\* The first forEach: a split of the user on an expense another member paid
\* adds under the payer; a split of another member on an expense the user
\* paid subtracts under that member.
UserExpenseContribs(userId, exps) ==
    Flatten(MapSeq(exps, LAMBDA e :
        Flatten(MapSeq(e.expense_splits, LAMBDA s :
            IF s.user_id = userId /\ e.paid_by # userId
            THEN <<[key |-> e.paid_by, delta |-> s.amount]>>
            ELSE IF e.paid_by = userId /\ s.user_id # userId
            THEN <<[key |-> s.user_id, delta |-> -s.amount]>>
            ELSE <<>>))))

\* The second forEach: a settlement the user paid subtracts under the payee,
\* a settlement the user received subtracts under the payer.
UserSettlementContribs(userId, setts) ==
    Flatten(MapSeq(setts, LAMBDA s :
        IF s.paid_by = userId
        THEN <<[key |-> s.paid_to, delta |-> -s.amount]>>
        ELSE IF s.paid_to = userId
        THEN <<[key |-> s.paid_by, delta |-> -s.amount]>>
        ELSE <<>>))

UserBalancesObject(userId, exps, setts) ==
    AddAll(AddAll(EmptyBalances, UserExpenseContribs(userId, exps)),
           UserSettlementContribs(userId, setts))

\* owes: the counterparties with value > 0.01, in key order.
UserOwes(bal) ==
    MapSeq(SelectSeq(bal.keys, LAMBDA k :
               ExceedsTolerance(bal.val[k], Tolerance,
                                bal.terms[k] >= 2 /\ sumsRoundUp) /\ bal.val[k] > 0),
           LAMBDA k : [user |-> UserMapGet(k), amount |-> ToFixed2(bal.val[k], 1)])

\* owed: the counterparties with value < -0.01, in key order.
UserOwed(bal) ==
    MapSeq(SelectSeq(bal.keys, LAMBDA k :
               ExceedsTolerance(bal.val[k], Tolerance,
                                bal.terms[k] >= 2 /\ sumsRoundUp) /\ ~(bal.val[k] > 0)),
           LAMBDA k : [user |-> UserMapGet(k), amount |-> ToFixed2(Abs(bal.val[k]), 1)])

\* items.reduce((s, i) => s + Number(i.amount), 0).toFixed(2)
TotalOf(items) == ToFixed2(SumSeq(MapSeq(items, LAMBDA i : i.amount)), 1)

\* The body of the 200 response past the membership test, from the rows the
\* two reads returned.
UserBalancesBody(userId, exps, setts) ==
    LET bal == UserBalancesObject(userId, exps, setts)
    IN  [owes |-> UserOwes(bal), owed |-> UserOwed(bal),
         total_owes |-> TotalOf(UserOwes(bal)),
         total_owed |-> TotalOf(UserOwed(bal))]

\* getUserBalances on the ledger as it stands.
getUserBalances(userId) ==
    IF GroupIdsOf(userId) = {}
    THEN [owes |-> <<>>, owed |-> <<>>, total_owes |-> 0, total_owed |-> 0]
    ELSE UserBalancesBody(userId, ExpensesIn(GroupIdsOf(userId)),
                          SettlementsIn(GroupIdsOf(userId)))

----------------------------------------------------------------------------
(* Requests the clients send *)

ExpenseFields == {"group_id", "description", "amount", "paid_by", "split_type", "splits"}
SettlementFields == {"group_id", "paid_by", "paid_to", "amount"}

\* One participant entry of a request body.
Participant(n, amount, percentage) ==
    [user_id |-> UserId(n), amount |-> amount, percentage |-> percentage]

\* A body posted to /api/expenses; fields are the properties it holds.
ExpenseRequest(groupId, payer, amount, splitType, splits) ==
    [route |-> "expenses", fields |-> ExpenseFields, group_id |-> groupId,
     amount |-> amount, paid_by |-> UserId(payer), split_type |-> splitType,
     splits |-> splits]

\* A body posted to /api/settlements.
SettlementRequest(groupId, payer, payee, amount) ==
    [route |-> "settlements", fields |-> SettlementFields, group_id |-> groupId,
     paid_by |-> UserId(payer), paid_to |-> UserId(payee), amount |-> amount]

\* A body posted to /api/groups.
GroupRequest(creator, member_ids) ==
    [route |-> "groups", fields |-> {"name", "description", "created_by", "member_ids"},
     created_by |-> UserId(creator), member_ids |-> member_ids]

\* A body posted to /api/groups/:groupId/members.
MemberRequest(groupId, n) ==
    [route |-> "members", fields |-> {"user_id"}, groupId |-> groupId,
     user_id |-> UserId(n)]

\* No request was received yet.
NoRequest == [route |-> "none", fields |-> {}]

\* The requests of the ledger specification: equal splits among everyone in
\* the first group, paid by any user, and one exact and one percentage split;
\* equal splits paid by the first two users in the other groups.
\* The members of a group's initial roster as participants of an equal split.
RosterSize(g) == IF NumUsers - g + 1 < 1 THEN 1 ELSE NumUsers - g + 1
Roster(g) == [n \in 1..RosterSize(g) |-> Participant(n, 0, 0)]

\* The requests of the ledger specification: equal splits among the roster,
\* paid by any member; in the first group also one exact and one percentage
\* split.
LedgerExpenseRequests ==
    {ExpenseRequest(1, n, a, "equal", Roster(1)) : n \in 1..NumUsers, a \in {9000, 6000}}
    \cup UNION {{ExpenseRequest(g, n, 9000, "equal", Roster(g)) :
                     n \in 1..RosterSize(g)} : g \in 2..NumGroups}
    \cup {ExpenseRequest(1, 2, 9000, "exact",
              <<Participant(1, 3000, 0), Participant(2, 4000, 0), Participant(3, 2000, 0)>>),
          ExpenseRequest(1, 3, 6000, "percentage",
              <<Participant(1, 0, 5000), Participant(2, 0, 3000), Participant(3, 0, 2000)>>)}

\* Settlements between any two users in the first group (a payment to
\* oneself included), and between the first two users in the other groups.
LedgerSettlementRequests ==
    {SettlementRequest(1, p, q, a) : p \in 1..NumUsers, q \in 1..NumUsers, a \in {3000, 5000}}
    \cup {SettlementRequest(g, p, 3 - p, 3000) : g \in 2..NumGroups, p \in 1..2}

----------------------------------------------------------------------------
(* The ledger specification *)

\* The rosters the groups were created with: the first group holds every
\* user, each further group one user less, never fewer than one.
InitialMembers ==
    UNION {{[group_id |-> g, user_id |-> UserId(n)] : n \in 1..RosterSize(g)} :
           g \in Groups}

\* The groups those rosters belong to, each created by the first user.
InitialGroups == [g \in Groups |-> [id |-> g, created_by |-> UserId(1)]]

Init ==
    /\ group_members = InitialMembers
    /\ expenses = <<>>
    /\ expense_splits = <<>>
    /\ settlements = <<>>
    /\ pending = <<>>
    /\ response = 0
    /\ request = NoRequest
    /\ groups = InitialGroups
    /\ pendingMembers = <<>>
    /\ queries = <<>>
    /\ answers = <<>>
    /\ sumsRoundUp = FALSE
    /\ selectedGroup = [id |-> 0, origin |-> "none"]
    /\ shownExpenses = 0
    /\ groupBalances = 0
    /\ loads = <<>>
    /\ selections = 0
    /\ lastSelected = 0

Next ==
    \/ \E req \in LedgerExpenseRequests : createExpense(req)
    \/ createExpenseInsertSplits
    \/ createExpenseSplitsError
    \/ \E req \in LedgerSettlementRequests : createSettlement(req)

Spec == Init /\ [][Next]_vars

----------------------------------------------------------------------------
(* What the claims speak of *)

\* S(X, Y): the sum of X's split amounts on the group's expenses paid by Y.
SplitSum(groupId, x, y) ==
    SumSeq(MapSeq(
        SelectSeq(expense_splits, LAMBDA s :
            /\ s.user_id = x
            /\ \E i \in 1..Len(expenses) :
                  /\ expenses[i].id = s.expense_id
                  /\ expenses[i].group_id = groupId
                  /\ expenses[i].paid_by = y),
        LAMBDA s : s.amount))

\* The sum of the group's settlements x paid to y.
PaidSum(groupId, x, y) ==
    SumSeq(MapSeq(
        SelectSeq(settlements, LAMBDA s :
            s.group_id = groupId /\ s.paid_by = x /\ s.paid_to = y),
        LAMBDA s : s.amount))

\* What x owes y in the group, net of everything: x's shares of what y paid
\* less y's shares of what x paid, less what x paid y, plus what y paid x.
NetDebt(groupId, x, y) ==
    IF x = y THEN 0
    ELSE SplitSum(groupId, x, y) - SplitSum(groupId, y, x)
         - PaidSum(groupId, x, y) + PaidSum(groupId, y, x)

\* The edges of a getGroupBalances response.
Edge(x, y, amount) == [from_user |-> x, to_user |-> y, amount |-> amount]
HasEdge(balances, x, y, amount) == Edge(x, y, amount) \in Range(balances)

\* getGroupBalances on the group's ledger without its last settlement.
GroupBalancesBefore(groupId) ==
    GroupBalancesBody(ExpensesIn({groupId}), Front(SettlementsIn({groupId})))

\* What x owed y in the group before its last settlement was recorded.
NetDebtBefore(groupId, x, y) ==
    LET s == Last(SettlementsIn({groupId}))
    IN  NetDebt(groupId, x, y)
        + (IF s.paid_by = x /\ s.paid_to = y THEN s.amount ELSE 0)
        - (IF s.paid_by = y /\ s.paid_to = x THEN s.amount ELSE 0)

----------------------------------------------------------------------------
(* C1 *)

\* C1: in getGroupBalances a recorded settlement in which P pays Q amount m
\* lowers the net amount P owes Q by m.  The instance: one expense (A pays
\* 90, split equally among A, B, C) and one settlement (B pays A 30) yield
\* exactly one edge, C owes A 30.00, and no edge between B and A.
C1_Instance ==
    (/\ Len(expenses) = 1 /\ Len(expense_splits) = 3 /\ Len(settlements) = 1
     /\ expenses[1].group_id = 1 /\ expenses[1].amount = 9000
     /\ expenses[1].paid_by = UserId(1) /\ expenses[1].split_type = "equal"
     /\ settlements[1] = [group_id |-> 1, paid_by |-> UserId(2),
                          paid_to |-> UserId(1), amount |-> 3000])
    => getGroupBalances(1) = <<Edge(UserId(3), UserId(1), 3000)>>

----------------------------------------------------------------------------
(* C2 *)

\* The edges the netting of the documentation yields for a group: one edge
\* from the net debtor to the net creditor of every pair whose net exceeds
\* the tolerance.
NettedEdges(groupId) ==
    {e \in {Edge(x, y, NetDebt(groupId, x, y)) : x \in Users, y \in Users} :
        e.amount > Tolerance}

\* C2: for a group whose ledger holds only expenses, getGroupBalances emits
\* for each pair {A, B} the amount |S(A,B) - S(B,A)| from the net debtor to
\* the net creditor, once, and nothing else.
C2_ExpensesNetPairwise ==
    \A g \in Groups :
        SettlementsIn({g}) = <<>> =>
            /\ Range(getGroupBalances(g)) = NettedEdges(g)
            /\ Len(getGroupBalances(g)) = Cardinality(NettedEdges(g))

----------------------------------------------------------------------------
(* C3 *)

\* How often an entry occurs in a response.
Count(balances, e) == Cardinality({i \in 1..Len(balances) : balances[i] = e})

\* The entries of a response that are not an edge between x and y.
NotBetween(balances, x, y) ==
    {e \in Range(balances) : {e.from_user, e.to_user} # {x, y}}

\* C3: adding one settlement between P and Q to a group's ledger changes at
\* most the edge of the pair {P, Q}: every other entry of getGroupBalances
\* is reported as before the settlement, and no other entry appears.
C3_SettlementTouchesOnePair ==
    \A g \in Groups :
        SettlementsIn({g}) # <<>> =>
            LET s == Last(SettlementsIn({g}))
                before == GroupBalancesBefore(g)
                after == getGroupBalances(g)
            IN  \A e \in NotBetween(before, s.paid_by, s.paid_to)
                       \cup NotBetween(after, s.paid_by, s.paid_to) :
                    Count(before, e) = Count(after, e)

----------------------------------------------------------------------------
(* C4 *)

\* The amounts a group response reports x to owe y.
EdgeAmounts(balances, x, y) ==
    {e.amount : e \in {e \in Range(balances) : e.from_user = x /\ e.to_user = y}}

\* The amounts a list of a user response (owes or owed) holds for y.
ListedAmounts(items, y) ==
    {i.amount : i \in {i \in Range(items) : i.user = y}}

\* Two reports of one balance agree: both absent, or both present with
\* amounts within the tolerance.
Agree(xs, ys) ==
    /\ (xs = {}) <=> (ys = {})
    /\ \A x \in xs, y \in ys : Abs(x - y) <= Tolerance

\* C4: for any ledger, group G and members A and B of G, getGroupBalances(G)
\* reports 'A owes B x' exactly when getUserBalances(A) lists B under owes
\* with x, and 'B owes A x' exactly when it lists B under owed with x.
C4_GroupAndUserScopeAgree ==
    \A g \in Groups : \A a \in MembersOf(g), b \in MembersOf(g) :
        a # b =>
            /\ Agree(EdgeAmounts(getGroupBalances(g), a, b),
                     ListedAmounts(getUserBalances(a).owes, b))
            /\ Agree(EdgeAmounts(getGroupBalances(g), b, a),
                     ListedAmounts(getUserBalances(a).owed, b))

----------------------------------------------------------------------------
(* C5 *)

\* C5: in every getGroupBalances output two members are connected by at most
\* one edge: no two entries have the same two end points, in either
\* direction.
C5_OneEdgePerPair ==
    \A g \in Groups :
        LET balances == getGroupBalances(g)
        IN  \A i \in 1..Len(balances), j \in 1..Len(balances) :
                i # j => {balances[i].from_user, balances[i].to_user}
                         # {balances[j].from_user, balances[j].to_user}

----------------------------------------------------------------------------
(* C6 *)

\* C6: createSettlement accepts a payment larger than the outstanding
\* balance and the next getGroupBalances shows the excess in the reverse
\* direction: if P owed Q d >= 0 and pays m > d + 0.01, the response holds
\* 'Q owes P m - d' and no edge from P to Q.
C6_OverpaymentReverses ==
    \A g \in Groups :
        SettlementsIn({g}) # <<>> =>
            LET s == Last(SettlementsIn({g}))
                d == NetDebtBefore(g, s.paid_by, s.paid_to)
            IN  (d >= 0 /\ s.amount > d + Tolerance) =>
                    /\ HasEdge(getGroupBalances(g), s.paid_to, s.paid_by, s.amount - d)
                    /\ EdgeAmounts(getGroupBalances(g), s.paid_by, s.paid_to) = {}

----------------------------------------------------------------------------
(* C7 *)

\* getUserBalances on the ledger without its last settlement.
UserBalancesBefore(userId) ==
    UserBalancesBody(userId, ExpensesIn(GroupIdsOf(userId)),
        SelectSeq(Front(settlements), LAMBDA s : s.group_id \in GroupIdsOf(userId)))

\* What a user response says the user owes y: positive when y is listed
\* under owes, negative when under owed, 0 when in neither list.
Towards(result, y) ==
    SumSeq(MapSeq(SelectSeq(result.owes, LAMBDA i : i.user = y), LAMBDA i : i.amount))
    - SumSeq(MapSeq(SelectSeq(result.owed, LAMBDA i : i.user = y), LAMBDA i : i.amount))

\* The amount a response shows for a balance: nothing within the tolerance.
Shown(amount) == IF Abs(amount) > Tolerance THEN amount ELSE 0

\* C7: in getUserBalances a settlement in which the debtor pays the creditor
\* no more than the outstanding balance reduces that balance by its amount
\* in the payer's result and in the payee's result; after a payment of
\* exactly the amount owed neither result lists the other party.
C7_SettlementReducesUserBalance ==
    settlements # <<>> =>
        LET s == Last(settlements)
            owed == Towards(UserBalancesBefore(s.paid_by), s.paid_to)
        IN  (/\ s.group_id \in GroupIdsOf(s.paid_by) \cap GroupIdsOf(s.paid_to)
             /\ owed >= s.amount
             /\ Towards(UserBalancesBefore(s.paid_to), s.paid_by) = -owed)
            => /\ Towards(getUserBalances(s.paid_by), s.paid_to) = Shown(owed - s.amount)
               /\ Towards(getUserBalances(s.paid_to), s.paid_by) = -Shown(owed - s.amount)

----------------------------------------------------------------------------
(* C8 *)

\* C8: user-scope results agree across perspectives: getUserBalances(A)
\* lists B under owes with x exactly when getUserBalances(B) lists A under
\* owed with x, so total_owes summed over the users equals total_owed summed
\* over the users.
C8_UserScopeSymmetric ==
    /\ \A a \in Users, b \in Users :
          a # b => ListedAmounts(getUserBalances(a).owes, b)
                   = ListedAmounts(getUserBalances(b).owed, a)
    /\ SumSeq([n \in 1..NumUsers |-> getUserBalances(UserId(n)).total_owes])
       = SumSeq([n \in 1..NumUsers |-> getUserBalances(UserId(n)).total_owed])

----------------------------------------------------------------------------
(* The split specification: createExpense on one expense, over a wide range
   of amounts and participant counts *)

\* count participants: the users in turn, a user again past the last one
\* (the handler accepts a list that names a user twice).
Participants(count, amount, percentage) ==
    [i \in 1..count |-> Participant(((i - 1) % NumUsers) + 1, amount, percentage)]

SplitAmounts == (1..MaxSplitAmount) \cup {10000}

SplitEqualRequests ==
    {ExpenseRequest(1, 1, a, "equal", Participants(c, 0, 0)) :
        a \in SplitAmounts, c \in 1..MaxSplitCount}

\* Exact splits of two participants, their amounts from one cent below to
\* two cents above a half of the total.
SplitExactRequests ==
    {ExpenseRequest(1, 1, 2 * h, "exact",
         <<Participant(1, h + d1, 0), Participant(2, h + d2, 0)>>) :
        h \in {1, 50}, d1 \in {-1, 0, 1}, d2 \in {-1, 0, 1, 2}}

\* Percentage splits of three participants: thirds of 100 percent, the last
\* one from 0.02 below to 0.02 above what completes 100.
SplitPercentageRequests ==
    {ExpenseRequest(1, 1, a, "percentage",
         <<Participant(1, 0, 3333), Participant(2, 0, 3333), Participant(3, 0, 3334 + d)>>) :
        a \in SplitAmounts, d \in {-2, -1, 0, 1, 2}}

\* Requests with an empty participant list, of every kind.
SplitEmptyRequests ==
    {ExpenseRequest(1, 1, a, t, <<>>) : a \in {1, 100}, t \in SplitTypes}

\* Requests whose amount is zero or negative, their participants' amounts and
\* percentages consistent with it.
SplitNonPositiveRequests ==
    {ExpenseRequest(1, 1, 2 * h, t,
         <<Participant(1, h, 5000), Participant(2, h, 5000)>>) :
        h \in {0, -250}, t \in SplitTypes}

\* A body without a description, and one with an unknown split_type.
SplitMalformedRequests ==
    {[ExpenseRequest(1, 1, 100, "equal", Participants(2, 0, 0))
          EXCEPT !.fields = ExpenseFields \ {"description"}],
     ExpenseRequest(1, 1, 100, "shares", Participants(2, 0, 0))}

SplitExpenseRequests ==
    SplitEqualRequests \cup SplitExactRequests \cup SplitPercentageRequests
    \cup SplitEmptyRequests \cup SplitNonPositiveRequests
    \cup SplitMalformedRequests

SplitNext ==
    \/ \E req \in SplitExpenseRequests : expenses = <<>> /\ createExpense(req)
    \/ createExpenseInsertSplits
    \/ createExpenseSplitsError

SplitSpec == Init /\ [][SplitNext]_vars

\* The amounts of the stored split rows of an expense.
StoredShares(expense) == MapSeq(SplitsOf(expense.id), LAMBDA s : s.amount)

\* The expenses whose split rows were stored.
ExpensesWithSplits == {e \in Range(expenses) : SplitsOf(e.id) # <<>>}

\* The last request was a complete createExpense body of this kind with a
\* positive amount and at least one participant.
LastExpenseRequestOf(kind) ==
    /\ request.route = "expenses"
    /\ request.fields = ExpenseFields
    /\ request.split_type = kind
    /\ request.amount > 0
    /\ request.splits # <<>>

\* createExpense answered the last request with a validation error and wrote
\* nothing.
ExpenseValidationError ==
    /\ response = StatusBadRequest
    /\ expenses = <<>>
    /\ expense_splits = <<>>
    /\ pending = <<>>

----------------------------------------------------------------------------
(* C9 *)

\* C9: for every expense createExpense persisted with its splits, of any
\* split kind and participant count, the sum of the stored split amounts
\* equals the expense's total amount within 0.01.
C9_SplitsSumToTotal ==
    \A e \in ExpensesWithSplits :
        Abs(SumSeq(StoredShares(e)) - e.amount) <= Tolerance

----------------------------------------------------------------------------
(* C10 *)

----------------------------------------------------------------------------
(* C11 *)

\* C11: an equal split gives the rounding remainder to one participant, so
\* that the stored shares sum exactly to the expense total (100 split equally
\* among 3 is stored as 33.33, 33.33 and 33.34).
C11_EqualRemainderToOne ==
    \A e \in ExpensesWithSplits :
        e.split_type = "equal" => SumSeq(StoredShares(e)) = e.amount

----------------------------------------------------------------------------
(* C12 *)

\* C12: createExpense with kind exact succeeds if and only if the sum of the
\* participants' amounts is within 0.01 of the total amount, and otherwise
\* fails with a validation error; on success each stored split amount is the
\* participant's given amount, with no percentage.
C12_ExactWithinTolerance ==
    LastExpenseRequestOf("exact") =>
        /\ IF Abs(TotalSplit(request) - request.amount) <= Tolerance
           THEN expenses # <<>>
           ELSE ExpenseValidationError
        /\ expense_splits # <<>> =>
               /\ Len(expense_splits) = Len(request.splits)
               /\ \A i \in 1..Len(expense_splits) :
                     /\ expense_splits[i].user_id = request.splits[i].user_id
                     /\ expense_splits[i].amount = request.splits[i].amount
                     /\ expense_splits[i].percentage = Null

----------------------------------------------------------------------------
(* C13 *)

\* C13: createExpense with kind percentage succeeds if and only if the sum of
\* the participants' percentages is within 0.01 of 100, and otherwise fails
\* with a validation error; on success each stored split has the amount
\* total * percentage / 100 rounded to 2 decimals and the percentage given.
C13_PercentageWithinTolerance ==
    LastExpenseRequestOf("percentage") =>
        /\ IF Abs(TotalPercentage(request) - HundredPercent) <= PercentTolerance
           THEN expenses # <<>>
           ELSE ExpenseValidationError
        /\ expense_splits # <<>> =>
               /\ Len(expense_splits) = Len(request.splits)
               /\ \A i \in 1..Len(expense_splits) :
                     /\ expense_splits[i].user_id = request.splits[i].user_id
                     /\ 2 * Abs(PercentDivisor * expense_splits[i].amount
                                - request.amount * request.splits[i].percentage)
                            <= PercentDivisor
                     /\ expense_splits[i].percentage
                            = <<request.splits[i].percentage>>

----------------------------------------------------------------------------
(* C14 *)

\* C14: createExpense with an amount that is zero or negative fails with a
\* validation error before any write: the request is answered with 400 and
\* no expense with amount <= 0 is sent to or stored in the ledger.
C14_NonPositiveAmountRejected ==
    (/\ request.route = "expenses"
     /\ request.fields = ExpenseFields
     /\ request.amount <= 0)
    => ExpenseValidationError

----------------------------------------------------------------------------
(* C15 *)

\* C15: createExpense with an empty participant list fails with a validation
\* error for every split kind, and no expense record is stored.
C15_EmptyParticipantsRejected ==
    (/\ request.route = "expenses"
     /\ request.fields = ExpenseFields
     /\ request.split_type \in SplitTypes
     /\ request.amount > 0
     /\ request.splits = <<>>)
    => ExpenseValidationError

----------------------------------------------------------------------------
(* The settlement specification: createSettlement over payments between any
   two users, a user and itself included, of any sign of amount *)

SettlementAmounts == {-3000, 0, 1, 3000}

SettlementSpecRequests ==
    {SettlementRequest(1, p, q, a) :
        p \in 1..NumUsers, q \in 1..NumUsers, a \in SettlementAmounts}
    \cup {[SettlementRequest(1, 1, 2, 3000)
               EXCEPT !.fields = SettlementFields \ {"paid_to"}]}

SettlementNext == \E req \in SettlementSpecRequests : createSettlement(req)

SettlementSpec == Init /\ [][SettlementNext]_vars

\* The last request was a createSettlement body that names a payer and a
\* payee, the same user.
LastRequestSelfSettlement ==
    /\ request.route = "settlements"
    /\ {"paid_by", "paid_to"} \subseteq request.fields
    /\ request.paid_by = request.paid_to

----------------------------------------------------------------------------
(* C16 *)

\* C16: createSettlement with payer equal to payee is rejected with a
\* validation error (400), whatever the amount, and stores no settlement
\* record: no stored settlement has the same payer and payee.
C16_SelfSettlementRejected ==
    /\ LastRequestSelfSettlement => response = StatusBadRequest
    /\ \A i \in 1..Len(settlements) :
          settlements[i].paid_by # settlements[i].paid_to

\* A complete self-settlement request of a positive amount was answered
\* with 400 on a ledger that holds a settlement of another request.
C16_Witness ==
    /\ LastRequestSelfSettlement
    /\ request.fields = SettlementFields
    /\ request.amount > 0
    /\ response = StatusBadRequest
    /\ settlements # <<>>

----------------------------------------------------------------------------
(* The group specification: createGroup and addGroupMember *)

\* Groups created by the first two users: without member_ids, with the
\* creator among them (what the form of CreateGroup sends), and with another
\* user only; with one user twice, and with an id the users table does not
\* hold; a body without a name.
UnknownUser == UserId(0)

GroupSpecRequests ==
    UNION {{GroupRequest(c, <<>>),
            GroupRequest(c, <<UserId(c)>>),
            GroupRequest(c, <<UserId(c), UserId(3)>>),
            GroupRequest(c, <<UserId(3 - c)>>),
            GroupRequest(c, <<UserId(c), UserId(c)>>),
            GroupRequest(c, <<UserId(c), UnknownUser>>)} : c \in 1..2}
    \cup {[GroupRequest(1, <<UserId(1)>>) EXCEPT !.fields = {"created_by", "member_ids"}]}

MemberSpecRequests ==
    {MemberRequest(g, n) : g \in 1..(NumGroups + MaxNewGroups), n \in 1..NumUsers}
    \cup {[MemberRequest(1, 1) EXCEPT !.fields = {}]}

GroupNext ==
    \/ \E req \in GroupSpecRequests : createGroup(req)
    \/ createGroupInsertMembers
    \/ createGroupMembersError
    \/ \E req \in MemberSpecRequests : addGroupMember(req)

GroupSpec == Init /\ [][GroupNext]_vars

----------------------------------------------------------------------------
(* C17 *)

\* C17: after any sequence of createGroup and addGroupMember operations the
\* creator of every stored group is in that group's roster, also when
\* createGroup is called with a non-empty member_ids list that does not
\* contain created_by.  (Stated for the groups whose member rows were written:
\* a group whose second write failed has no roster at all.)
C17_CreatorInRoster ==
    pendingMembers = <<>> =>
        \A i \in 1..Len(groups) :
            MembersOf(groups[i].id) # {}
                => groups[i].created_by \in MembersOf(groups[i].id)

----------------------------------------------------------------------------
(* C18 *)

\* C18: createExpense persists the expense and its splits as one logical
\* unit: in every state of the store (between the two writes, after a failed
\* split write, as a query would read it) an expense row is present only
\* together with its split rows, so that a request answered with an error
\* leaves no row behind.  Every request of the ledger specification names at
\* least one participant.
C18_ExpenseOnlyWithSplits ==
    \A i \in 1..Len(expenses) : SplitsOf(expenses[i].id) # <<>>

----------------------------------------------------------------------------
(* The query specification: getGroupBalances invocations interleaved with
   each other and with the handlers that write the ledger *)

\* The groups the queries are about: the first two.
QueryGroups == {g \in Groups : g <= 2}

\* One expense request in each of these groups, split equally among its
\* roster and paid by the first user, and a payment of the second user to
\* the first in the first group.
QueryExpenseRequests ==
    {ExpenseRequest(g, 1, 9000, "equal", Roster(g)) : g \in QueryGroups}

QuerySettlementRequests == {SettlementRequest(1, 2, 1, 3000)}

\* No getGroupBalances request has arrived yet.
NoQueryYet == queries = <<>> /\ answers = <<>>

\* The ledger is written until the first query arrives and stays as it is
\* from then on.
QueryNext ==
    \/ \E req \in QueryExpenseRequests : NoQueryYet /\ createExpense(req)
    \/ NoQueryYet /\ createExpenseInsertSplits
    \/ NoQueryYet /\ createExpenseSplitsError
    \/ \E req \in QuerySettlementRequests : NoQueryYet /\ createSettlement(req)
    \/ \E groupId \in QueryGroups : getGroupBalancesReadExpenses(groupId)
    \/ \E i \in 1..Len(queries) : getGroupBalancesReadSettlements(i)
    \/ \E i \in 1..Len(queries) : getGroupBalancesRespond(i)

QuerySpec == Init /\ [][QueryNext]_vars

\* The id of a registered user who was never added to a group.
Outsider == UserId(NumUsers + 1)

\* The ledger holds no expense and no settlement of these groups.
NoHistory(groupIds) ==
    /\ \A i \in 1..Len(expenses) : expenses[i].group_id \notin groupIds
    /\ \A i \in 1..Len(settlements) : settlements[i].group_id \notin groupIds

\* The body getUserBalances sends when it reports no balances.
NoUserBalances == [owes |-> <<>>, owed |-> <<>>, total_owes |-> 0, total_owed |-> 0]

----------------------------------------------------------------------------
(* C19 *)

\* C19: a balance query whose scope holds no expense and no settlement
\* reports no balances: getGroupBalances answers a group without history
\* with an empty list, and getUserBalances answers a user whose groups have
\* no history, or who belongs to no group, with empty owes and owed and the
\* totals 0.00, as a success.
C19_EmptyScopeNoBalances ==
    /\ \A g \in Groups : NoHistory({g}) => getGroupBalances(g) = <<>>
    /\ \A i \in 1..Len(answers) :
          NoHistory({answers[i].groupId}) => answers[i].balances = <<>>
    /\ \A u \in Users \cup {Outsider} :
          NoHistory(GroupIdsOf(u)) => getUserBalances(u) = NoUserBalances

\* A group without history was answered with an empty list while another
\* group of the ledger has balances to report, and a user who belongs to no
\* group is answered with no balances.
C19_Witness ==
    /\ \E i \in 1..Len(answers) :
          /\ NoHistory({answers[i].groupId})
          /\ answers[i].balances = <<>>
    /\ \E g \in Groups : getGroupBalances(g) # <<>>
    /\ GroupIdsOf(Outsider) = {}
    /\ getUserBalances(Outsider) = NoUserBalances

----------------------------------------------------------------------------
(* C20 *)

----------------------------------------------------------------------------
(* The cent specification: debts that differ by one cent *)

\* Exact splits between the first two members of the first group: the payer
\* takes 0.30, the other member 0.29, 0.30 or 0.31.
CentExpenseRequests ==
    {ExpenseRequest(1, p, 30 + other, "exact",
         <<Participant(p, 30, 0), Participant(3 - p, other, 0)>>) :
        p \in 1..2, other \in {29, 30, 31}}

\* A payment of one cent from the first member to the second.
CentSettlementRequests == {SettlementRequest(1, 1, 2, 1)}

CentNext ==
    \/ \E req \in CentExpenseRequests : createExpense(req)
    \/ createExpenseInsertSplits
    \/ createExpenseSplitsError
    \/ \E req \in CentSettlementRequests : createSettlement(req)

CentSpec == Init /\ [][CentNext]_vars

----------------------------------------------------------------------------
(* C21 *)

\* The places of a list of getUserBalances that name this counterparty.
PlacesOf(list, counterparty) ==
    {i \in 1..Len(list) : list[i].user = counterparty}

\* C21: in a getUserBalances result every counterparty appears at most once
\* over owes and owed together; it is under owes exactly when the user's
\* signed balance toward it is above 0.01, under owed exactly when it is
\* below -0.01, and in neither list when its magnitude is at most 0.01; a
\* listed amount is the magnitude of that balance and is above 0.01.
C21_UserBalancesPartition ==
    \A u \in Users :
        LET bal == UserBalancesObject(u, ExpensesIn(GroupIdsOf(u)),
                                      SettlementsIn(GroupIdsOf(u)))
            result == getUserBalances(u)
        IN  \A k \in Users :
                LET value == Lookup(bal, k)
                    owes == PlacesOf(result.owes, k)
                    owed == PlacesOf(result.owed, k)
                IN  /\ Cardinality(owes) + Cardinality(owed) <= 1
                    /\ (owes # {}) <=> (value > Tolerance)
                    /\ (owed # {}) <=> (value < -Tolerance)
                    /\ \A i \in owes : /\ result.owes[i].amount = Abs(value)
                                       /\ result.owes[i].amount > Tolerance
                    /\ \A i \in owed : /\ result.owed[i].amount = Abs(value)
                                       /\ result.owed[i].amount > Tolerance

----------------------------------------------------------------------------
(* C22 *)

\* The users named by the splits, the payers and the settlements of a group.
LedgerUsersOf(groupId) ==
    {e.paid_by : e \in Range(ExpensesIn({groupId}))}
    \cup UNION {{sp.user_id : sp \in Range(e.expense_splits)} :
                    e \in Range(ExpensesIn({groupId}))}
    \cup {st.paid_by : st \in Range(SettlementsIn({groupId}))}
    \cup {st.paid_to : st \in Range(SettlementsIn({groupId}))}

\* C22: getGroupBalances identifies the two members of a pair although their
\* ids are uuids, which hold '-': the from and to of every edge it computes,
\* and the users its response shows for them, are the complete ids of two
\* users named by the group's splits and settlements, and debts in opposite
\* directions between two members are netted into at most one edge.
C22_PairsOfCompleteIds ==
    \A g \in Groups :
        LET simplified == simplifiedBalances(ExpensesIn({g}), SettlementsIn({g}))
            body == getGroupBalances(g)
        IN  /\ \A i \in 1..Len(simplified) :
                  /\ simplified[i].from_user \in LedgerUsersOf(g)
                  /\ simplified[i].to_user \in LedgerUsersOf(g)
                  /\ body[i].from_user = simplified[i].from_user
                  /\ body[i].to_user = simplified[i].to_user
            /\ \A i \in 1..Len(simplified), j \in 1..Len(simplified) :
                  i # j => {simplified[i].from_user, simplified[i].to_user}
                               # {simplified[j].from_user, simplified[j].to_user}

----------------------------------------------------------------------------
(* The request specification: bodies the handlers accept, bodies their
   validation rejects, and bodies that name users from outside the group *)

\* The second group's roster leaves out the last user.
NonMember == NumUsers

\* An equal split in the first group, and in the second group an expense
\* paid by a user who is not a member and one shared with such a user.
AcceptedExpenseRequests ==
    {ExpenseRequest(1, 1, 9000, "equal", Roster(1)),
     ExpenseRequest(2, NonMember, 9000, "equal", Roster(2)),
     ExpenseRequest(2, 1, 9000, "exact",
         <<Participant(1, 4500, 0), Participant(NonMember, 4500, 0)>>)}

\* A body without a description, an unknown split_type, exact amounts that
\* sum to 10.00 below the total, percentages that sum to 90.
RejectedExpenseRequests ==
    {[ExpenseRequest(1, 1, 9000, "equal", Roster(1))
          EXCEPT !.fields = ExpenseFields \ {"description"}],
     ExpenseRequest(1, 1, 9000, "shares", Roster(1)),
     ExpenseRequest(1, 2, 9000, "exact",
         <<Participant(1, 3000, 0), Participant(2, 4000, 0), Participant(3, 1000, 0)>>),
     ExpenseRequest(1, 3, 9000, "percentage",
         <<Participant(1, 0, 5000), Participant(2, 0, 3000), Participant(3, 0, 1000)>>)}

\* A payment between two members of the first group, and one in the second
\* group from a user who is not a member.
AcceptedSettlementRequests ==
    {SettlementRequest(1, 2, 1, 3000), SettlementRequest(2, NonMember, 1, 3000)}

\* A body without paid_to, a payment to oneself, a negative and a zero amount.
RejectedSettlementRequests ==
    {[SettlementRequest(1, 2, 1, 3000) EXCEPT !.fields = SettlementFields \ {"paid_to"}],
     SettlementRequest(1, 1, 1, 3000),
     SettlementRequest(1, 2, 1, -3000),
     SettlementRequest(1, 2, 1, 0)}

RequestNext ==
    \/ \E req \in AcceptedExpenseRequests \cup RejectedExpenseRequests :
           createExpense(req)
    \/ createExpenseInsertSplits
    \/ createExpenseSplitsError
    \/ \E req \in AcceptedSettlementRequests \cup RejectedSettlementRequests :
           createSettlement(req)

RequestSpec == Init /\ [][RequestNext]_vars

----------------------------------------------------------------------------
(* C23 *)

\* What the claim calls rejected by validation, for a createExpense body: a
\* missing field, an unknown split kind, an exact or percentage sum outside
\* the tolerance.
ValidationRejectsExpense(req) ==
    \/ ExpenseFields \ req.fields # {}
    \/ req.split_type \notin {"equal", "exact", "percentage"}
    \/ req.split_type = "exact" /\ Abs(TotalSplit(req) - req.amount) > Tolerance
    \/ /\ req.split_type = "percentage"
       /\ Abs(TotalPercentage(req) - HundredPercent) > PercentTolerance

\* The same for a createSettlement body: a missing field, a payment to
\* oneself, an amount that is not positive.
ValidationRejectsSettlement(req) ==
    \/ SettlementFields \ req.fields # {}
    \/ req.paid_by = req.paid_to
    \/ req.amount <= 0

\* C23: a createExpense or createSettlement request that validation rejects
\* writes nothing: across the handler's step the expenses, the splits and the
\* settlements are the same, and so is everything else the balance queries
\* read (the rosters, the sums of the stored amounts), so that every balance
\* query returns what it returned before.
C23_RejectedRequestWritesNothing ==
    [][/\ \A req \in RejectedExpenseRequests \cup AcceptedExpenseRequests :
              (ValidationRejectsExpense(req) /\ createExpense(req))
                  => UNCHANGED <<expenses, expense_splits, settlements,
                                 group_members, sumsRoundUp>>
       /\ \A req \in RejectedSettlementRequests \cup AcceptedSettlementRequests :
              (ValidationRejectsSettlement(req) /\ createSettlement(req))
                  => UNCHANGED <<expenses, expense_splits, settlements,
                                 group_members, sumsRoundUp>>]_vars

\* A ledger that holds an expense with its splits and a settlement has
\* answered 400 to an exact split whose amounts sum to less than the total.
C23_Witness ==
    /\ request.route = "expenses"
    /\ request.split_type = "exact"
    /\ ValidationRejectsExpense(request)
    /\ response = StatusBadRequest
    /\ expense_splits # <<>>
    /\ settlements # <<>>

----------------------------------------------------------------------------
(* C24 *)

\* s is an initial part of t.
IsPrefix(s, t) == Len(s) <= Len(t) /\ SubSeq(t, 1, Len(s)) = s

\* C24: every settlement record has a payer different from its payee and an
\* amount above zero, and a stored expense, split or settlement record is
\* never modified or removed: each table only grows at its end.
C24_LedgerAppendOnly ==
    /\ [](\A i \in 1..Len(settlements) :
              /\ settlements[i].paid_by # settlements[i].paid_to
              /\ settlements[i].amount > 0)
    /\ [][/\ IsPrefix(expenses, expenses')
          /\ IsPrefix(expense_splits, expense_splits')
          /\ IsPrefix(settlements, settlements')]_vars

\* The ledger is full, and after its last record was stored a handler has
\* failed or refused a request.
C24_Witness ==
    /\ Len(expenses) = MaxExpenses
    /\ Len(settlements) = MaxSettlements
    /\ expense_splits # <<>>
    /\ response \in {StatusBadRequest, StatusServerError}

----------------------------------------------------------------------------
(* C26 *)

\* C26: every ledger record names only members of its own group: the payer
\* and the participants of a stored expense, and the payer and the payee of a
\* stored settlement, are in the roster of the record's group.
C26_LedgerNamesMembersOnly ==
    /\ \A i \in 1..Len(expenses) :
          expenses[i].paid_by \in MembersOf(expenses[i].group_id)
    /\ \A i \in 1..Len(expense_splits) :
          \A j \in 1..Len(expenses) :
              expenses[j].id = expense_splits[i].expense_id
                  => expense_splits[i].user_id \in MembersOf(expenses[j].group_id)
    /\ \A i \in 1..Len(settlements) :
          /\ settlements[i].paid_by \in MembersOf(settlements[i].group_id)
          /\ settlements[i].paid_to \in MembersOf(settlements[i].group_id)

----------------------------------------------------------------------------
(* C25 *)

\* C25: every edge of a getGroupBalances response has a from different from
\* its to and an amount above 0.01, and two members whose net debt is within
\* 0.01 of zero (0.01 included) have no edge between them.
C25_EdgesAboveTolerance ==
    \A g \in Groups :
        LET balances == getGroupBalances(g)
        IN  /\ \A i \in 1..Len(balances) :
                  /\ balances[i].from_user # balances[i].to_user
                  /\ balances[i].amount > Tolerance
            /\ \A x \in Users, y \in Users :
                  Abs(NetDebt(g, x, y)) <= Tolerance =>
                      \A i \in 1..Len(balances) :
                          {balances[i].from_user, balances[i].to_user} # {x, y}

----------------------------------------------------------------------------
(* C27 *)

\* C27: createGroup writes the group and its roster as one unit: whenever no
\* createGroup stands between its two writes, every stored group has at least
\* one member, also after a createGroup whose membership insert failed (a
\* user twice in member_ids, an unknown user): a failed createGroup leaves no
\* group record.
C27_GroupWithRoster ==
    pendingMembers = <<>> =>
        \A i \in 1..Len(groups) : MembersOf(groups[i].id) # {}

----------------------------------------------------------------------------
(* The race specification: getGroupBalances invocations that run while
   createExpense writes *)

RaceExpenseRequests == {ExpenseRequest(1, 1, 9000, "equal", Roster(1))}

RaceNext ==
    \/ \E req \in RaceExpenseRequests : createExpense(req)
    \/ createExpenseInsertSplits
    \/ createExpenseSplitsError
    \/ getGroupBalancesReadExpenses(1)
    \/ \E i \in 1..Len(queries) : getGroupBalancesReadSettlements(i)
    \/ \E i \in 1..Len(queries) : getGroupBalancesRespond(i)

RaceSpec == Init /\ [][RaceNext]_vars

----------------------------------------------------------------------------
(* C28 *)

\* The expenses of a read that came with split rows.
WithSplits(exps) == SelectSeq(exps, LAMBDA e : e.expense_splits # <<>>)

\* How many split rows createExpense computes for an expense of the race
\* specification, whose requests are shared by the roster of their group.
SplitRowsOf(e) == RosterSize(e.group_id)

\* What a read of the group's expenses can have returned at some earlier
\* time: the expenses stored by then, the last of them with its split rows or,
\* its createExpense standing between its two writes, without them.
EarlierReads(groupId) ==
    LET now == ExpensesIn({groupId})
    IN  UNION {{SubSeq(now, 1, k),
                [i \in 1..k |-> IF i = k THEN [now[i] EXCEPT !.expense_splits = <<>>]
                                ELSE now[i]]} : k \in 0..Len(now)}

\* C28: a balance query that reads between createExpense's expense write and
\* its split write, or after a split write that failed, returns the balances
\* of the ledger without that expense: an expense without split rows adds
\* nothing to getGroupBalances or getUserBalances, for the queries as
\* functions of the ledger, and for the invocations of getGroupBalances that
\* run while expenses are written, whose answer is the answer for the
\* expenses with splits among those it read.  And no query reads a non-empty
\* strict subset of the split rows of one expense.
C28_ExpenseWithoutSplitsInvisible ==
    /\ \A g \in Groups :
          getGroupBalances(g)
              = GroupBalancesBody(WithSplits(ExpensesIn({g})), SettlementsIn({g}))
    /\ \A u \in Users :
          GroupIdsOf(u) # {} =>
              getUserBalances(u)
                  = UserBalancesBody(u, WithSplits(ExpensesIn(GroupIdsOf(u))),
                                     SettlementsIn(GroupIdsOf(u)))
    /\ \A i \in 1..Len(queries) :
          /\ \A j \in 1..Len(queries[i].expenses) :
                Len(queries[i].expenses[j].expense_splits)
                    \in {0, SplitRowsOf(queries[i].expenses[j])}
          /\ queries[i].awaits = "users" =>
                queries[i].simplifiedBalances
                    = simplifiedBalances(WithSplits(queries[i].expenses),
                                         SettlementsIn({queries[i].groupId}))
    /\ \A i \in 1..Len(answers) :
          \E read \in EarlierReads(answers[i].groupId) :
              answers[i].balances
                  = GroupBalancesBody(WithSplits(read),
                                      SettlementsIn({answers[i].groupId}))
    /\ \A i \in 1..Len(expenses) :
          Len(SplitsOf(expenses[i].id)) \in {0, SplitRowsOf(expenses[i])}

\* An invocation read the expenses between the two writes of a createExpense:
\* it holds that expense without split rows while the ledger holds them by
\* now, and it has computed balances from the other expenses it read.
C28_Witness ==
    \E i \in 1..Len(queries) :
        /\ queries[i].awaits = "users"
        /\ queries[i].simplifiedBalances # <<>>
        /\ \E j \in 1..Len(queries[i].expenses) :
              /\ queries[i].expenses[j].expense_splits = <<>>
              /\ SplitsOf(queries[i].expenses[j].id) # <<>>

----------------------------------------------------------------------------
(* The App component: the selected group and the data loaded for it *)

\* The three requests loadGroupData sends and awaits with Promise.all.
GroupDataRequests == {"group", "expenses", "balances"}

\* A Group object of the groups list that GroupList renders, and the Group
\* object parsed from a response of api.groups.getById.  Every response is
\* parsed into a new object, which no earlier object is identical to.
ListedGroup(g) == [id |-> g, origin |-> "list"]
LoadedGroup(g) == [id |-> g, origin |-> "response"]

\* Whether setSelectedGroup(group) changes the state (Object.is on objects).
SelectedGroupChanges(group) == group.origin = "response" \/ group # selectedGroup

\* The calls waiting at their await once the effect of [selectedGroup] has
\* run for this group object: if (selectedGroup) loadGroupData(), which sends
\* its three requests for the id of the selectedGroup of its render.
useEffectSelectedGroup(waiting, group) ==
    Append(waiting, [groupId |-> group.id, awaits |-> GroupDataRequests])

\* The user picks a group in GroupList: onGroupSelect(group) is
\* setSelectedGroup(group), and the effect runs when the state has changed.
onGroupSelect(g) ==
    /\ UNCHANGED server
    /\ selections < MaxSelections
    /\ selections' = selections + 1
    /\ lastSelected' = g
    /\ IF SelectedGroupChanges(ListedGroup(g))
       THEN /\ selectedGroup' = ListedGroup(g)
            /\ loads' = useEffectSelectedGroup(loads, ListedGroup(g))
       ELSE UNCHANGED <<selectedGroup, loads>>
    /\ UNCHANGED <<shownExpenses, groupBalances>>

\* The response to one of the three requests of a loadGroupData call arrives.
responseArrives(i, r) ==
    /\ UNCHANGED server
    /\ r \in loads[i].awaits
    /\ loads' = [loads EXCEPT ![i].awaits = @ \ {r}]
    /\ UNCHANGED <<selectedGroup, shownExpenses, groupBalances, selections,
                   lastSelected>>

\* Promise.all has resolved and loadGroupData goes on: setSelectedGroup,
\* setExpenses, setGroupBalances with what was loaded; the new Group object
\* changes selectedGroup, so the effect runs again.
loadGroupData(i) ==
    /\ UNCHANGED server
    /\ loads[i].awaits = {}
    /\ selectedGroup' = LoadedGroup(loads[i].groupId)
    /\ shownExpenses' = loads[i].groupId
    /\ groupBalances' = loads[i].groupId
    /\ loads' = IF SelectedGroupChanges(LoadedGroup(loads[i].groupId))
                THEN useEffectSelectedGroup(RemoveAt(loads, i),
                                            LoadedGroup(loads[i].groupId))
                ELSE RemoveAt(loads, i)
    /\ UNCHANGED <<selections, lastSelected>>

\* One of the requests fails: Promise.all rejects, the catch logs the error
\* and no state is set.
loadGroupDataCatch(i) ==
    /\ UNCHANGED server
    /\ loads[i].awaits # {}
    /\ loads' = RemoveAt(loads, i)
    /\ UNCHANGED <<selectedGroup, shownExpenses, groupBalances, selections,
                   lastSelected>>

AppNext ==
    \/ \E g \in Groups : onGroupSelect(g)
    \/ \E i \in 1..Len(loads) : \E r \in GroupDataRequests : responseArrives(i, r)
    \/ \E i \in 1..Len(loads) : loadGroupData(i)
    \/ \E i \in 1..Len(loads) : loadGroupDataCatch(i)

AppSpec == Init /\ [][AppNext]_vars

\* The browser delivers the responses that arrive and runs the continuation
\* of a resolved promise; no request has to fail.
AppFairSpec ==
    /\ AppSpec
    /\ WF_vars(\E i \in 1..Len(loads) : \E r \in GroupDataRequests : responseArrives(i, r))
    /\ WF_vars(\E i \in 1..Len(loads) : loadGroupData(i))

----------------------------------------------------------------------------
(* C29 *)

\* C29: selecting a group starts a bounded number of loadGroupData rounds:
\* once the user has stopped selecting and the responses have arrived, no
\* loadGroupData call is in flight any more, and it stays so.
C29_LoadingComesToRest == <>[](loads = <<>>)

----------------------------------------------------------------------------
(* C30 *)

\* C30: the App shows the group the user picked last: the selected group is
\* that group also after a response for a group picked earlier has arrived,
\* and whenever the expense list or the balances are replaced, they are
\* replaced by those of the group picked last.
C30_LastSelectionWins ==
    /\ [](selectedGroup.id = lastSelected)
    /\ [][(shownExpenses' # shownExpenses \/ groupBalances' # groupBalances)
              => (shownExpenses' = lastSelected' /\ groupBalances' = lastSelected')]_vars

====
